---- MODULE Spec2Model ----
(***************************************************************************)
(* Media-query extractor of the web-analysis toolkit                       *)
(* (src/unnamed/part_009, the script src/extractors/media-queries.mjs):    *)
(* the in-page stylesheet walk of extractMediaQueries, the scorer          *)
(* calculateComplexity and the filter stage applyFilters.                  *)
(*                                                                         *)
(* Strings are sequences of lexical atoms: a selector or a property name   *)
(* is a sequence of characters, a media condition is a sequence of tokens  *)
(* ("screen", " and ", "(", "min-width:", " ", digits, "px", ")").         *)
(* A nullable value is <<>> (null) or <<v>>.                               *)
(***************************************************************************)
EXTENDS Integers, Sequences, FiniteSets, TLC

VARIABLES pc, doc, si, results, data, analysis,
          propertyFilter, selectorFilter, filtered, refiltered,
          run, cache, now, page, other

vars == <<pc, doc, si, results, data, analysis,
          propertyFilter, selectorFilter, filtered, refiltered,
          run, cache, now, page, other>>

(***************************************************************************)
(* Bounds of the model.                                                    *)
(***************************************************************************)
\* style sheets in document.styleSheets
MaxSheets == 2
\* top-level rules read over the whole document
MaxRules == 3
\* min-width queries of a scored record list
MaxMinWidths == 11
\* max-width queries of a scored record list
MaxMaxWidths == 3
\* copies of each width query in a scored record list
MaxRepeat == 5
\* media-query records handed to the filter stage
MaxRecords == 2

\* @media rules in each of the two sheets that are scored side by side
MaxPairQueries == 3

\* consecutive invocations of the script on one URL
MaxRuns == 2

\* @media rules in a sheet of neighbouring widths
MaxWidthQueries == 3

\* @media rules appended to a sheet
MaxAppend == 3

(***************************************************************************)
(* Nullable values and small helpers.                                      *)
(***************************************************************************)
None == <<>>
Some(x) == <<x>>
Val(o) == o[1]

Min(S) == CHOOSE x \in S : \A y \in S : x <= y

Range(s) == {s[i] : i \in 1..Len(s)}

\* JavaScript truthiness of a nullable number: null and 0 are falsy
TruthyNum(o) == o # None /\ Val(o) # 0

\* JavaScript truthiness of a nullable string: null and "" are falsy
TruthyStr(o) == o # None /\ Val(o) # <<>>

\* String.prototype.includes: sub occurs in s as a contiguous subsequence
Includes(s, sub) ==
    \E i \in 0..(Len(s) - Len(sub)) :
        \A j \in 1..Len(sub) : s[i + j] = sub[j]

\* String.prototype.startsWith
StartsWith(s, pre) ==
    Len(pre) <= Len(s) /\ \A j \in 1..Len(pre) : s[j] = pre[j]

(***************************************************************************)
(* Numbers and their decimal text.                                         *)
(***************************************************************************)
Digits == <<"0", "1", "2", "3", "4", "5", "6", "7", "8", "9">>

DigitSet == Range(Digits)

DigitVal(d) == (CHOOSE i \in 1..10 : Digits[i] = d) - 1

\* parseInt on a string of decimal digits
RECURSIVE parseInt(_)
parseInt(ds) ==
    IF ds = <<>> THEN 0
    ELSE 10 * parseInt(SubSeq(ds, 1, Len(ds) - 1)) + DigitVal(ds[Len(ds)])

\* template-literal conversion of a non-negative integer to decimal digits
RECURSIVE NumToStr(_)
NumToStr(n) ==
    IF n < 10 THEN <<Digits[n + 1]>>
    ELSE NumToStr(n \div 10) \o <<Digits[(n % 10) + 1]>>

(***************************************************************************)
(* The regular expressions /min-width:\s*(\d+)px/ and                      *)
(* /max-width:\s*(\d+)px/ on a tokenised media condition.                  *)
(***************************************************************************)
Whitespace == {" "}

\* first index >= from whose token is not in S (Len(s)+1 when there is none)
SkipWhile(s, from, S) ==
    Min({m \in from..(Len(s) + 1) : m = Len(s) + 1 \/ s[m] \notin S})

\* the capture group of a match that starts at token i, or None
MatchAt(s, i, feature) ==
    IF s[i] # feature THEN None
    ELSE LET j == SkipWhile(s, i + 1, Whitespace)
             k == SkipWhile(s, j, DigitSet)
         IN IF k > j /\ k <= Len(s) /\ s[k] = "px"
            THEN Some(SubSeq(s, j, k - 1))
            ELSE None

\* String.prototype.match: the leftmost match's capture group, or None
WidthMatch(s, feature) ==
    LET starts == {i \in 1..Len(s) : MatchAt(s, i, feature) # None}
    IN IF starts = {} THEN None ELSE MatchAt(s, Min(starts), feature)

\* the key `${type}-${breakpoint}` of the breakpoints map
BreakpointKey(type, breakpoint) ==
    <<IF type = None THEN "null" ELSE Val(type), "-">>
    \o NumToStr(Val(breakpoint))

(***************************************************************************)
(* Finite maps (Map, plain objects) and folds.                             *)
(***************************************************************************)
EmptyMap == [k \in {} |-> <<>>]

\* results.breakpoints.get(key).push(v), creating the bucket when absent
MapPush(m, k, v) ==
    [x \in (DOMAIN m) \cup {k} |->
        IF x = k THEN (IF k \in DOMAIN m THEN Append(m[k], v) ELSE <<v>>)
        ELSE m[x]]

\* Array.from(set).sort((a, b) => a - b)
RECURSIVE SortAsc(_)
SortAsc(S) ==
    IF S = {} THEN <<>> ELSE <<Min(S)>> \o SortAsc(S \ {Min(S)})

\* the sum of a sequence of numbers, by halves
RECURSIVE SumSeq(_)
SumSeq(s) ==
    IF Len(s) = 0 THEN 0
    ELSE IF Len(s) = 1 THEN s[1]
    ELSE LET h == Len(s) \div 2
         IN SumSeq(SubSeq(s, 1, h)) + SumSeq(SubSeq(s, h + 1, Len(s)))

RECURSIVE Concat(_)
Concat(ss) == IF ss = <<>> THEN <<>> ELSE ss[1] \o Concat(Tail(ss))

(***************************************************************************)
(* extractMediaQueries: what the in-page walk does with one @media rule.   *)
(***************************************************************************)
\* the max-width branch without its assignment to type
ParseConditionNoMaxType(mediaText) ==
    LET minWidthMatch == WidthMatch(mediaText, "min-width:")
        maxWidthMatch == WidthMatch(mediaText, "max-width:")
        base == [condition |-> mediaText, rules |-> <<>>,
                 breakpoint |-> None, type |-> None]
    IN IF minWidthMatch # None
       THEN [base EXCEPT !.breakpoint = Some(parseInt(Val(minWidthMatch))),
                         !.type = Some("min-width")]
       ELSE IF maxWidthMatch # None
       THEN [base EXCEPT !.breakpoint = Some(parseInt(Val(maxWidthMatch)))]
       ELSE base

\* max-width is tested before min-width
ParseConditionMaxFirst(mediaText) ==
    LET minWidthMatch == WidthMatch(mediaText, "min-width:")
        maxWidthMatch == WidthMatch(mediaText, "max-width:")
        base == [condition |-> mediaText, rules |-> <<>>,
                 breakpoint |-> None, type |-> None]
    IN IF maxWidthMatch # None
       THEN [base EXCEPT !.breakpoint = Some(parseInt(Val(maxWidthMatch))),
                         !.type = Some("max-width")]
       ELSE IF minWidthMatch # None
       THEN [base EXCEPT !.breakpoint = Some(parseInt(Val(minWidthMatch))),
                         !.type = Some("min-width")]
       ELSE base

\* lines 139-159: the record with its breakpoint and type, before its rules
ParseCondition(mediaText) ==
    LET minWidthMatch == WidthMatch(mediaText, "min-width:")
        maxWidthMatch == WidthMatch(mediaText, "max-width:")
        base == [condition |-> mediaText, rules |-> <<>>,
                 breakpoint |-> None, type |-> None]
    IN IF minWidthMatch # None
       THEN [base EXCEPT !.breakpoint = Some(parseInt(Val(minWidthMatch))),
                         !.type = Some("min-width")]
       ELSE IF maxWidthMatch # None
       THEN [base EXCEPT !.breakpoint = Some(parseInt(Val(maxWidthMatch))),
                         !.type = Some("max-width")]
       ELSE base

\* lines 167-171: the property map of one declaration block
PropertiesOf(style) ==
    [prop \in {style[i][1] : i \in 1..Len(style)} |->
        (CHOOSE d \in Range(style) : d[1] = prop)[2]]

\* lines 162-178: the style rules nested in the media block, in order
RECURSIVE InnerRules(_)
InnerRules(cssRules) ==
    IF cssRules = <<>> THEN <<>>
    ELSE (IF cssRules[1].type = "STYLE_RULE"
          THEN <<[selector |-> cssRules[1].selectorText,
                  properties |-> PropertiesOf(cssRules[1].style)]>>
          ELSE <<>>) \o InnerRules(Tail(cssRules))

\* lines 134-178: the mediaQuery object of one @media rule
MediaQueryOf(rule) ==
    [ParseCondition(rule.mediaText) EXCEPT !.rules = InnerRules(rule.cssRules)]

\* lines 137, 154, 158: the running total and the set of breakpoints
CountQuery(summary, mediaQuery) ==
    [totalMediaQueries |-> summary.totalMediaQueries + 1,
     uniqueBreakpoints |->
        IF mediaQuery.breakpoint # None
        THEN summary.uniqueBreakpoints \cup {Val(mediaQuery.breakpoint)}
        ELSE summary.uniqueBreakpoints]

\* lines 182-189: group by breakpoint
GroupByBreakpoint(breakpoints, mediaQuery) ==
    IF TruthyNum(mediaQuery.breakpoint)
    THEN MapPush(breakpoints,
                 BreakpointKey(mediaQuery.type, mediaQuery.breakpoint),
                 mediaQuery)
    ELSE breakpoints

(***************************************************************************)
(* calculateComplexity.  The average totalProperties / breakpointCount is  *)
(* a rational; its comparisons are cross-multiplied.                       *)
(***************************************************************************)
\* Object.keys(rule.properties).length summed over the rules of a record
RECURSIVE PropCount(_)
PropCount(rules) ==
    IF rules = <<>> THEN 0
    ELSE Cardinality(DOMAIN rules[1].properties) + PropCount(Tail(rules))

\* line 261: the bucket a record's properties are counted in
CountKey(mq) ==
    IF TruthyNum(mq.breakpoint) THEN BreakpointKey(mq.type, mq.breakpoint)
    ELSE <<"other">>

\* lines 258-271: breakpointPropertyCounts as its Object.entries: one entry
\* per key, in the order in which the keys are first met, holding the sum
\* of the property counts of the records of that key
BreakpointPropertyCounts(mqs) ==
    LET keys == [i \in 1..Len(mqs) |-> CountKey(mqs[i])] \o <<>>
        props == [i \in 1..Len(mqs) |-> PropCount(mqs[i].rules)] \o <<>>
        firsts == SortAsc({i \in 1..Len(mqs) :
                              \A j \in 1..(i - 1) : keys[j] # keys[i]})
    IN [n \in 1..Len(firsts) |->
          [key |-> keys[firsts[n]],
           count |-> SumSeq([i \in 1..Len(mqs) |->
                        IF keys[i] = keys[firsts[n]] THEN props[i] ELSE 0])]]

\* six or seven breakpoints score less than four or five
BreakpointScoreDip(breakpointCount) ==
    IF breakpointCount = 0 THEN 0
    ELSE IF breakpointCount <= 3 THEN 5
    ELSE IF breakpointCount <= 5 THEN 10
    ELSE IF breakpointCount <= 7 THEN 5
    ELSE IF breakpointCount <= 10 THEN 20
    ELSE 25

\* lines 247-253
BreakpointScore(breakpointCount) ==
    IF breakpointCount = 0 THEN 0
    ELSE IF breakpointCount <= 3 THEN 5
    ELSE IF breakpointCount <= 5 THEN 10
    ELSE IF breakpointCount <= 7 THEN 15
    ELSE IF breakpointCount <= 10 THEN 20
    ELSE 25

\* line 280: avgPropertiesPerBreakpoint <= limit
AvgAtMost(totalProperties, breakpointCount, limit) ==
    IF breakpointCount > 0 THEN totalProperties <= limit * breakpointCount
    ELSE 0 <= limit

\* the top band weighted 35 instead of 30
PropertyScoreHeavy(totalProperties, breakpointCount) ==
    IF AvgAtMost(totalProperties, breakpointCount, 5) THEN 5
    ELSE IF AvgAtMost(totalProperties, breakpointCount, 15) THEN 12
    ELSE IF AvgAtMost(totalProperties, breakpointCount, 30) THEN 20
    ELSE 35

\* lines 283-287
PropertyScore(totalProperties, breakpointCount) ==
    IF AvgAtMost(totalProperties, breakpointCount, 5) THEN 5
    ELSE IF AvgAtMost(totalProperties, breakpointCount, 15) THEN 12
    ELSE IF AvgAtMost(totalProperties, breakpointCount, 30) THEN 20
    ELSE 30

\* line 281: Math.round(avgPropertiesPerBreakpoint)
RoundedAvg(totalProperties, breakpointCount) ==
    IF breakpointCount > 0
    THEN (2 * totalProperties + breakpointCount) \div (2 * breakpointCount)
    ELSE 0

\* mq.condition.split(' and ').length
SplitAndLength(condition) ==
    Cardinality({i \in 1..Len(condition) : condition[i] = " and "}) + 1

NestedFeatures == {"orientation", "resolution", "aspect-ratio", "hover", "pointer"}

\* lines 293-299: what one record adds to nestedOrCombinedCount
NestedIncrement(mq) ==
    (IF Includes(mq.condition, <<" and ">>) /\ SplitAndLength(mq.condition) > 2
     THEN 1 ELSE 0)
    + (IF \E i \in 1..Len(mq.condition) : mq.condition[i] \in NestedFeatures
       THEN 1 ELSE 0)

\* lines 290-300
NestedOrCombinedCount(mqs) ==
    SumSeq([i \in 1..Len(mqs) |-> NestedIncrement(mqs[i])])

\* lines 304-308
NestedScore(nestedOrCombinedCount) ==
    IF nestedOrCombinedCount = 0 THEN 0
    ELSE IF nestedOrCombinedCount <= 2 THEN 5
    ELSE IF nestedOrCombinedCount <= 5 THEN 12
    ELSE 20

\* lines 312-317: the breakpoints of the records of one type
WidthsOf(mqs, type) ==
    LET sel == SelectSeq(mqs, LAMBDA mq :
                   mq.type = Some(type) /\ TruthyNum(mq.breakpoint))
    IN [i \in 1..Len(sel) |-> Val(sel[i].breakpoint)]

Abs(x) == IF x < 0 THEN -x ELSE x

\* lines 319-327
OverlapCount(mqs) ==
    LET minWidths == WidthsOf(mqs, "min-width")
        maxWidths == WidthsOf(mqs, "max-width")
    IN Cardinality({p \in (1..Len(minWidths)) \X (1..Len(maxWidths)) :
                       Abs(minWidths[p[1]] - maxWidths[p[2]]) <= 1})

\* lines 331-335
OverlapScore(overlapCount) ==
    IF overlapCount = 0 THEN 0
    ELSE IF overlapCount <= 2 THEN 5
    ELSE IF overlapCount <= 5 THEN 10
    ELSE 15

\* lines 341-345
\* the second band ends five queries early
QueryCountScoreEarly(totalQueries) ==
    IF totalQueries <= 10 THEN 2
    ELSE IF totalQueries <= 20 THEN 5
    ELSE IF totalQueries <= 50 THEN 7
    ELSE 10

QueryCountScore(totalQueries) ==
    IF totalQueries <= 10 THEN 2
    ELSE IF totalQueries <= 25 THEN 5
    ELSE IF totalQueries <= 50 THEN 7
    ELSE 10

\* the bands tested in the wrong order
LevelOfMisordered(score) ==
    IF score <= 40 THEN "Moderate"
    ELSE IF score <= 20 THEN "Simple"
    ELSE IF score <= 60 THEN "Complex"
    ELSE IF score <= 80 THEN "Very Complex"
    ELSE "Extremely Complex"

\* lines 350-366
LevelOf(score) ==
    IF score <= 20 THEN "Simple"
    ELSE IF score <= 40 THEN "Moderate"
    ELSE IF score <= 60 THEN "Complex"
    ELSE IF score <= 80 THEN "Very Complex"
    ELSE "Extremely Complex"

\* line 370: count > avgPropertiesPerBreakpoint * 1.5 && count > 20
IsProblem(count, totalProperties, breakpointCount) ==
    /\ IF breakpointCount > 0
       THEN 2 * count * breakpointCount > 3 * totalProperties
       ELSE count > 0
    /\ count > 20

\* lines 368-377
ProblemBreakpoints(counts, totalProperties, breakpointCount) ==
    LET sel == SelectSeq(counts, LAMBDA c :
                   IsProblem(c.count, totalProperties, breakpointCount))
    IN [i \in 1..Len(sel) |->
          [breakpoint |-> sel[i].key, propertyCount |-> sel[i].count]]

calculateComplexity(d) ==
    LET breakpointCount == Len(d.summary.uniqueBreakpoints)
        counts == BreakpointPropertyCounts(d.mediaQueries) \o <<>>
        totalProperties == SumSeq([i \in 1..Len(counts) |-> counts[i].count])
        nestedOrCombinedCount == NestedOrCombinedCount(d.mediaQueries)
        overlapCount == OverlapCount(d.mediaQueries)
        totalQueries == d.summary.totalMediaQueries
        score == BreakpointScore(breakpointCount)
                 + PropertyScore(totalProperties, breakpointCount)
                 + NestedScore(nestedOrCombinedCount)
                 + OverlapScore(overlapCount)
                 + QueryCountScore(totalQueries)
    IN [score |-> score,
        level |-> LevelOf(score),
        breakdown |->
            [breakpointCount |-> breakpointCount,
             propertyChangesPerBreakpoint |->
                 RoundedAvg(totalProperties, breakpointCount),
             nestedQueries |-> nestedOrCombinedCount,
             overlaps |-> overlapCount,
             totalQueries |-> totalQueries],
        problemBreakpoints |->
            ProblemBreakpoints(counts, totalProperties, breakpointCount)]

(***************************************************************************)
(* The documents the walk is run on: style sheets, @media rules and the    *)
(* rules nested in them.                                                   *)
(***************************************************************************)
Origin == <<"https://a.com">>

SameOriginHref == <<"https://a.com", "/site.css">>

CrossOriginHref == <<"https://cdn.b.com", "/lib.css">>

Margin == <<"m", "a", "r", "g", "i", "n">>

MarginLeft == Margin \o <<"-", "l", "e", "f", "t">>

Width == <<"w", "i", "d", "t", "h">>

Navbar == <<".", "n", "a", "v", "b", "a", "r">>

Footer == <<".", "f", "o", "o", "t", "e", "r">>

NavbarRule ==
    [type |-> "STYLE_RULE", selectorText |-> Navbar,
     style |-> <<<<MarginLeft, "0">>, <<Width, "100%">>>>]

FooterRule ==
    [type |-> "STYLE_RULE", selectorText |-> Footer,
     style |-> <<<<Margin, "auto">>>>]

\* a nested at-rule (@supports), which is no style rule
SupportsRule ==
    [type |-> "SUPPORTS_RULE", selectorText |-> <<>>, style |-> <<>>]

CondMin768 ==
    <<"screen", " and ", "(", "min-width:", " ", "7", "6", "8", "px", ")">>

CondMax768 == <<"(", "max-width:", " ", "7", "6", "8", "px", ")">>

CondMin0 == <<"(", "min-width:", " ", "0", "px", ")">>

CondPrint == <<"print">>

CondMaxMin ==
    <<"(", "max-width:", " ", "9", "9", "9", "px", ")", " and ",
      "(", "min-width:", "4", "8", "0", "px", ")">>

MediaRule(mediaText, cssRules) ==
    [type |-> "MEDIA_RULE", mediaText |-> mediaText, cssRules |-> cssRules]

MediaRules ==
    {MediaRule(CondMin768, <<NavbarRule, FooterRule>>),
     MediaRule(CondMax768, <<NavbarRule>>),
     MediaRule(CondMin0, <<FooterRule>>),
     MediaRule(CondPrint, <<SupportsRule>>)}

\* the @media rules whose nested rules may fail to be read
FailingMediaRules ==
    {MediaRule(CondMin768, <<NavbarRule, FooterRule>>),
     MediaRule(CondPrint, <<SupportsRule>>)}

\* a top-level rule that is no @media rule
TopStyleRule == [type |-> "STYLE_RULE", mediaText |-> <<>>, cssRules |-> <<>>]

\* a style sheet before it is read: its href and what reading cssRules gives
Sheet(href, cssRules) ==
    [href |-> href, cssRules |-> cssRules, rules |-> <<>>, state |-> "unread"]

SheetKinds ==
    {Sheet(None, "list"),
     Sheet(Some(CrossOriginHref), "list"),
     Sheet(Some(SameOriginHref), "throws"),
     Sheet(Some(SameOriginHref), "null")}

Documents ==
    UNION {[1..n -> SheetKinds] : n \in 0..MaxSheets}

\* line 124: the sheet is skipped as cross-origin
IsCrossOrigin(sheet) ==
    TruthyStr(sheet.href) /\ ~StartsWith(Val(sheet.href), Origin)

RulesRead(d) == SumSeq([i \in 1..Len(d) |-> Len(d[i].rules)])

EmptyResults ==
    [breakpoints |-> EmptyMap,
     mediaQueries |-> <<>>,
     summary |-> [totalMediaQueries |-> 0, uniqueBreakpoints |-> {}]]

NoData ==
    [breakpoints |-> EmptyMap,
     mediaQueries |-> <<>>,
     summary |-> [totalMediaQueries |-> 0, uniqueBreakpoints |-> <<>>]]

NoAnalysis == calculateComplexity(NoData)

\* the state of a process that has not started: lines 34-39 not yet run,
\* no cache file, no second record list
NoRun ==
    [url |-> "none", forceRefresh |-> FALSE, source |-> "none",
     failure |-> "none", launched |-> 0, closed |-> 0,
     exitCode |-> None, resultFile |-> None, cacheBefore |-> None,
     number |-> 0, earlier |-> None]

NoProcess ==
    /\ run = NoRun
    /\ cache = None
    /\ now = 0
    /\ page = <<>>
    /\ other = [data |-> NoData, analysis |-> NoAnalysis]

(***************************************************************************)
(* extractMediaQueries as a walk over document.styleSheets.                *)
(*   pc = "sheets"  at the head of the loop over the sheets (line 121)     *)
(*   pc = "rules"   at the head of the loop over a sheet's rules (line 131) *)
(*   pc = "done"    extractMediaQueries has returned                       *)
(***************************************************************************)
Init ==
    /\ pc = "sheets"
    /\ doc \in Documents
    /\ si = 0
    /\ results = EmptyResults
    /\ data = NoData
    /\ analysis = NoAnalysis
    /\ propertyFilter = None
    /\ selectorFilter = None
    /\ filtered = NoData
    /\ refiltered = NoData
    /\ NoProcess

\* the try block around the whole loop: a failure ends the walk
AfterCatchBreak(i, n) == n

\* lines 192-195: the catch block ends this sheet; the loop goes on with
\* the sheet after sheet i of n
AfterCatch(i, n) == i

Unfiltered ==
    UNCHANGED <<propertyFilter, selectorFilter, filtered, refiltered,
                run, cache, now, page, other>>

\* lines 123-126: continue on a sheet of another origin
SkipCrossOrigin ==
    /\ pc = "sheets" /\ si < Len(doc)
    /\ IsCrossOrigin(doc[si + 1])
    /\ si' = si + 1
    /\ doc' = [doc EXCEPT ![si + 1].state = "skipped"]
    /\ UNCHANGED <<pc, results, data, analysis>>
    /\ Unfiltered

\* line 128 throws, lines 192-195 catch
CatchInaccessible ==
    /\ pc = "sheets" /\ si < Len(doc)
    /\ ~IsCrossOrigin(doc[si + 1])
    /\ doc[si + 1].cssRules = "throws"
    /\ si' = AfterCatch(si + 1, Len(doc))
    /\ doc' = [doc EXCEPT ![si + 1].state = "inaccessible"]
    /\ UNCHANGED <<pc, results, data, analysis>>
    /\ Unfiltered

\* line 129: if (!rules) continue
SkipNoRules ==
    /\ pc = "sheets" /\ si < Len(doc)
    /\ ~IsCrossOrigin(doc[si + 1])
    /\ doc[si + 1].cssRules = "null"
    /\ si' = si + 1
    /\ doc' = [doc EXCEPT ![si + 1].state = "skipped"]
    /\ UNCHANGED <<pc, results, data, analysis>>
    /\ Unfiltered

\* lines 128-131: the rule list is there, start on its rules
OpenSheet ==
    /\ pc = "sheets" /\ si < Len(doc)
    /\ ~IsCrossOrigin(doc[si + 1])
    /\ doc[si + 1].cssRules = "list"
    /\ si' = si + 1
    /\ pc' = "rules"
    /\ doc' = [doc EXCEPT ![si + 1].state = "open"]
    /\ UNCHANGED <<results, data, analysis>>
    /\ Unfiltered

\* line 133: a rule that is no @media rule is passed over
ReadOtherRule ==
    /\ pc = "rules" /\ RulesRead(doc) < MaxRules
    /\ doc' = [doc EXCEPT ![si].rules = Append(@, TopStyleRule)]
    /\ UNCHANGED <<pc, si, results, data, analysis>>
    /\ Unfiltered

\* lines 133-190: one @media rule, read to its end
ReadMediaRule ==
    /\ pc = "rules" /\ RulesRead(doc) < MaxRules
    /\ \E rule \in MediaRules :
         LET mediaQuery == MediaQueryOf(rule)
         IN /\ results' =
                 [summary |-> CountQuery(results.summary, mediaQuery),
                  mediaQueries |-> Append(results.mediaQueries, mediaQuery),
                  breakpoints |->
                      GroupByBreakpoint(results.breakpoints, mediaQuery)]
            /\ doc' = [doc EXCEPT ![si].rules = Append(@, rule)]
    /\ UNCHANGED <<pc, si, data, analysis>>
    /\ Unfiltered

\* lines 133-162 and 192-195: reading the rules nested in an @media rule
\* throws; the total and the breakpoint are counted, the record is not
\* pushed, and the catch block ends the sheet
ReadMediaRuleThrows ==
    /\ pc = "rules" /\ RulesRead(doc) < MaxRules
    /\ \E rule \in FailingMediaRules :
         /\ results' =
              [results EXCEPT !.summary =
                  CountQuery(results.summary, ParseCondition(rule.mediaText))]
         /\ doc' = [doc EXCEPT ![si].rules = Append(@, rule),
                               ![si].state = "faulted"]
    /\ pc' = "sheets"
    /\ si' = AfterCatch(si, Len(doc))
    /\ UNCHANGED <<data, analysis>>
    /\ Unfiltered

\* line 131: the sheet has no more rules
EndOfRules ==
    /\ pc = "rules"
    /\ pc' = "sheets"
    /\ doc' = [doc EXCEPT ![si].state = "read"]
    /\ UNCHANGED <<si, results, data, analysis>>
    /\ Unfiltered

\* line 210: mediaQueryData.complexity = complexityAnalysis
WithComplexity(mediaQueryData, complexityAnalysis) ==
    ("complexity" :> complexityAnalysis) @@ mediaQueryData

\* lines 198-212: sets and maps become arrays and objects, the result is
\* returned to the host and scored
ReturnResults ==
    /\ pc = "sheets" /\ si = Len(doc)
    /\ LET mediaQueryData ==
             [results EXCEPT !.summary.uniqueBreakpoints =
                 SortAsc(results.summary.uniqueBreakpoints)]
           complexityAnalysis == calculateComplexity(mediaQueryData)
       IN /\ data' = WithComplexity(mediaQueryData, complexityAnalysis)
          /\ analysis' = complexityAnalysis
    /\ pc' = "done"
    /\ UNCHANGED <<doc, si, results>>
    /\ Unfiltered

Next ==
    \/ SkipCrossOrigin
    \/ CatchInaccessible
    \/ SkipNoRules
    \/ OpenSheet
    \/ ReadOtherRule
    \/ ReadMediaRule
    \/ ReadMediaRuleThrows
    \/ EndOfRules
    \/ ReturnResults

Spec == Init /\ [][Next]_vars

(***************************************************************************)
(* The scorer on its own: calculateComplexity applied to the extraction    *)
(* of a generated style sheet.  The sheet holds nMin min-width queries and *)
(* nMax max-width queries at breakpoints 4 px apart from 768 px, the       *)
(* max-width values shifted by off, each query rep times, and nOther print *)
(* queries.                                                                *)
(***************************************************************************)
\* the result of the walk over one accessible sheet with these @media rules
ExtractAll(rules) ==
    LET mqs == [i \in 1..Len(rules) |-> MediaQueryOf(rules[i])] \o <<>>
        grouped == SelectSeq(mqs, LAMBDA mq : TruthyNum(mq.breakpoint))
    IN [summary |->
            [totalMediaQueries |-> Len(mqs),
             uniqueBreakpoints |->
                 {Val(mqs[i].breakpoint) :
                      i \in {j \in 1..Len(mqs) : mqs[j].breakpoint # None}}],
        mediaQueries |-> mqs,
        breakpoints |->
            [k \in {BreakpointKey(mq.type, mq.breakpoint) : mq \in Range(grouped)}
                |-> SelectSeq(grouped, LAMBDA mq :
                        BreakpointKey(mq.type, mq.breakpoint) = k)]]

\* lines 198-200 on the result of the walk
Serialized(res) ==
    [res EXCEPT !.summary.uniqueBreakpoints =
        SortAsc(res.summary.uniqueBreakpoints)]

Prop(i) == <<"p", Digits[i]>>

BigRule ==
    [type |-> "STYLE_RULE", selectorText |-> Navbar,
     style |-> [i \in 1..8 |-> <<Prop(i), "0">>]]

RuleShapes == {<<>>, <<NavbarRule>>, <<BigRule>>}

WidthClause(feature, value) ==
    <<"(", feature, " ">> \o NumToStr(value) \o <<"px", ")">>

OrientationClause == <<"(", "orientation", ":", " ", "landscape", ")">>

CondKinds == {"plain", "oriented", "combined"}

WidthCondition(kind, feature, value) ==
    IF kind = "plain" THEN WidthClause(feature, value)
    ELSE IF kind = "oriented"
    THEN WidthClause(feature, value) \o <<" and ">> \o OrientationClause
    ELSE <<"screen", " and ">> \o WidthClause(feature, value)
         \o <<" and ">> \o OrientationClause

\* the @media rules of one family: n breakpoints from first, 4 px apart,
\* each rep times
FamilyRules(feature, first, n, rep, kind, shape) ==
    [i \in 1..(n * rep) |->
        MediaRule(WidthCondition(kind, feature, first + 4 * ((i - 1) \div rep)),
                  shape)]

GeneratedRules(nMin, nMax, off, rep, kind, shape, nOther) ==
    FamilyRules("min-width:", 768, nMin, rep, kind, shape)
    \o FamilyRules("max-width:", 768 + off, nMax, rep, kind, shape)
    \o [i \in 1..nOther |-> MediaRule(CondPrint, shape)]

InitScore ==
    /\ pc = "score"
    /\ doc = <<>>
    /\ si = 0
    /\ results = EmptyResults
    /\ \E nMin \in 0..MaxMinWidths, nMax \in 0..MaxMaxWidths,
          off \in 0..2, rep \in {1, MaxRepeat},
          kind \in CondKinds, shape \in RuleShapes, nOther \in {0, 2} :
         data = Serialized(ExtractAll(
                    GeneratedRules(nMin, nMax, off, rep, kind, shape, nOther)))
    /\ analysis = NoAnalysis
    /\ propertyFilter = None
    /\ selectorFilter = None
    /\ filtered = NoData
    /\ refiltered = NoData
    /\ NoProcess

\* lines 208-210: const complexityAnalysis = calculateComplexity(mediaQueryData)
Score ==
    /\ pc = "score"
    /\ analysis' = calculateComplexity(data)
    /\ pc' = "scored"
    /\ UNCHANGED <<doc, si, results, data>>
    /\ Unfiltered

NextScore == Score

SpecScore == InitScore /\ [][NextScore]_vars

(***************************************************************************)
(* applyFilters.  propertyFilter and selectorFilter are the values of the  *)
(* --property and --selector arguments (lines 36-37), null when absent.    *)
(***************************************************************************)
\* the match in one direction only
MatchesPropertyOneWay(rule) ==
    \E prop \in DOMAIN rule.properties : Includes(prop, Val(propertyFilter))

\* lines 398-402
MatchesProperty(rule) ==
    \E prop \in DOMAIN rule.properties :
        \/ Includes(prop, Val(propertyFilter))
        \/ Includes(Val(propertyFilter), prop)

\* lines 404-406
MatchesSelector(rule) == Includes(rule.selector, Val(selectorFilter))

\* lines 394-409: the predicate of mq.rules.filter
RuleMatches(rule) ==
    LET matchesProperty ==
            IF TruthyStr(propertyFilter) THEN MatchesProperty(rule) ELSE TRUE
        matchesSelector ==
            IF TruthyStr(selectorFilter) THEN MatchesSelector(rule) ELSE TRUE
    IN matchesProperty /\ matchesSelector

\* the count added to the one the record already carries
MatchCountAccumulated(mq, filteredRules) ==
    (IF "matchCount" \in DOMAIN mq THEN mq.matchCount ELSE 0)
    + Len(filteredRules)

\* line 414
MatchCount(mq, filteredRules) == Len(filteredRules)

\* the surviving rules in reverse order
FilterRecordReversed(mq) ==
    LET kept == SelectSeq(mq.rules, RuleMatches)
        filteredRules == [i \in 1..Len(kept) |-> kept[Len(kept) + 1 - i]]
    IN ("rules" :> filteredRules)
       @@ ("matchCount" :> MatchCount(mq, filteredRules))
       @@ mq

\* lines 393-415: { ...mq, rules: filteredRules, matchCount }
FilterRecord(mq) ==
    LET filteredRules == SelectSeq(mq.rules, RuleMatches)
    IN ("rules" :> filteredRules)
       @@ ("matchCount" :> MatchCount(mq, filteredRules))
       @@ mq

\* the records that lost all their rules are kept
DropEmptyNever(mqs) == mqs

\* line 416: .filter(mq => mq.rules.length > 0)
DropEmpty(mqs) == SelectSeq(mqs, LAMBDA mq : Len(mq.rules) > 0)

\* the complexity is computed again, on the filtered records
applyFiltersRescored(d) ==
    IF ~TruthyStr(propertyFilter) /\ ~TruthyStr(selectorFilter) THEN d
    ELSE LET kept == [d EXCEPT !.mediaQueries =
                        DropEmpty([i \in 1..Len(d.mediaQueries) |->
                                      FilterRecord(d.mediaQueries[i])])]
         IN [kept EXCEPT !.complexity = calculateComplexity(kept)]

applyFilters(d) ==
    IF ~TruthyStr(propertyFilter) /\ ~TruthyStr(selectorFilter) THEN d
    ELSE [d EXCEPT !.mediaQueries =
             DropEmpty([i \in 1..Len(d.mediaQueries) |->
                           FilterRecord(d.mediaQueries[i])])]

(***************************************************************************)
(* The filter stage on its own: applyFilters on the extraction of a sheet  *)
(* of up to MaxRecords @media rules, and once more on its own result.      *)
(***************************************************************************)
NavbarBrand == Navbar \o <<"-", "b", "r", "a", "n", "d">>

NavbarUpper == <<".", "N", "a", "v", "b", "a", "r">>

\* a rule with an empty declaration block
BrandRule ==
    [type |-> "STYLE_RULE", selectorText |-> NavbarBrand, style |-> <<>>]

UpperRule ==
    [type |-> "STYLE_RULE", selectorText |-> NavbarUpper,
     style |-> <<<<Width, "50%">>>>]

FilterMediaRules ==
    {MediaRule(CondMin768, <<NavbarRule, FooterRule>>),
     MediaRule(CondMax768, <<NavbarRule>>),
     MediaRule(CondMin0, <<FooterRule, UpperRule>>),
     MediaRule(CondPrint, <<SupportsRule>>),
     MediaRule(CondMaxMin, <<BrandRule, FooterRule, NavbarRule>>)}

FilterInputs ==
    UNION {[1..n -> FilterMediaRules] : n \in 0..MaxRecords}

PropertyFilters ==
    {None, Some(<<>>), Some(Margin), Some(MarginLeft), Some(Width)}

SelectorFilters ==
    {None, Some(Navbar), Some(<<".", "n", "a", "v">>), Some(NavbarUpper)}

InitFilter ==
    /\ pc = "filter"
    /\ doc = <<>>
    /\ si = 0
    /\ results = EmptyResults
    /\ \E rules \in FilterInputs :
         LET mediaQueryData == Serialized(ExtractAll(rules))
         IN /\ analysis = calculateComplexity(mediaQueryData)
            /\ data = WithComplexity(mediaQueryData, analysis)
    /\ propertyFilter \in PropertyFilters
    /\ selectorFilter \in SelectorFilters
    /\ filtered = NoData
    /\ refiltered = NoData
    /\ NoProcess

\* line 536: const filteredData = applyFilters(data)
ApplyFilters ==
    /\ pc = "filter"
    /\ filtered' = applyFilters(data)
    /\ pc' = "filtered"
    /\ UNCHANGED <<doc, si, results, data, analysis,
                   propertyFilter, selectorFilter, refiltered,
                   run, cache, now, page, other>>

\* applyFilters on its own result, with the same filters
ApplyFiltersAgain ==
    /\ pc = "filtered"
    /\ refiltered' = applyFilters(filtered)
    /\ pc' = "refiltered"
    /\ UNCHANGED <<doc, si, results, data, analysis,
                   propertyFilter, selectorFilter, filtered,
                   run, cache, now, page, other>>

NextFilter == ApplyFilters \/ ApplyFiltersAgain

SpecFilter == InitFilter /\ [][NextFilter]_vars

(***************************************************************************)
(* calculateComplexity on two record lists side by side: the extractions   *)
(* of two sheets of up to MaxPairQueries min-width rules, the i-th rule of *)
(* either sheet at the i-th breakpoint, each with one style rule of 2, 5   *)
(* or 6 declarations.                                                      *)
(***************************************************************************)
StyleRuleOf(n) ==
    [type |-> "STYLE_RULE", selectorText |-> Navbar,
     style |-> [i \in 1..n |-> <<Prop(i), "0">>]]

PairPropCounts == {2, 5, 6}

PairRules(counts) ==
    [i \in 1..Len(counts) |->
        MediaRule(WidthClause("min-width:", 768 + 4 * (i - 1)),
                  <<StyleRuleOf(counts[i])>>)]

PairInputs ==
    {PairRules(counts) :
        counts \in UNION {[1..n -> PairPropCounts] : n \in 0..MaxPairQueries}}

InitPair ==
    /\ pc = "pair"
    /\ doc = <<>>
    /\ si = 0
    /\ results = EmptyResults
    /\ \E rules \in PairInputs : data = Serialized(ExtractAll(rules))
    /\ analysis = NoAnalysis
    /\ propertyFilter = None
    /\ selectorFilter = None
    /\ filtered = NoData
    /\ refiltered = NoData
    /\ run = NoRun
    /\ cache = None
    /\ now = 0
    /\ page = <<>>
    /\ \E rules \in PairInputs :
          other = [data |-> Serialized(ExtractAll(rules)),
                   analysis |-> NoAnalysis]

\* lines 208-210, once for each of the two lists
ScorePair ==
    /\ pc = "pair"
    /\ analysis' = calculateComplexity(data)
    /\ other' = [other EXCEPT !.analysis = calculateComplexity(other.data)]
    /\ pc' = "paired"
    /\ UNCHANGED <<doc, si, results, data, propertyFilter, selectorFilter,
                   filtered, refiltered, run, cache, now, page>>

NextPair == ScorePair

SpecPair == InitPair /\ [][NextPair]_vars

(***************************************************************************)
(* One invocation of the script after another on the same URL and cache    *)
(* directory (lines 33-50 and 524-552).  run.url is the kind of args[0];   *)
(* cache is the cache file of that URL (null when it does not exist), now  *)
(* is Date.now(), page is the list of @media rules the site serves.        *)
(* run.earlier remembers the filters of the invocation before this one and *)
(* whether it wrote the cache.                                             *)
(***************************************************************************)
\* line 54
CACHE_DURATION == 24 * 60 * 60 * 1000

\* a cache file: mtime, and the parsed content when JSON.parse can read it
Entry(content, mtime, readable) ==
    [content |-> content, mtime |-> mtime, readable |-> readable]

\* --force is ignored
loadFromCacheUnforced(entry, t, forceRefresh) ==
    IF entry = None THEN [kind |-> "null"]
    ELSE IF t - Val(entry).mtime > CACHE_DURATION THEN [kind |-> "null"]
    ELSE IF ~Val(entry).readable THEN [kind |-> "throws"]
    ELSE [kind |-> "data", value |-> Val(entry).content]

\* lines 65-86: null, the parsed content, or the exception of line 85
loadFromCache(entry, t, forceRefresh) ==
    IF forceRefresh THEN [kind |-> "null"]
    ELSE IF entry = None THEN [kind |-> "null"]
    ELSE IF t - Val(entry).mtime > CACHE_DURATION THEN [kind |-> "null"]
    ELSE IF ~Val(entry).readable THEN [kind |-> "throws"]
    ELSE [kind |-> "data", value |-> Val(entry).content]

\* the browser is closed only when the try block returns
FinallyOnReturn(r) ==
    IF r.failure = "none" THEN [r EXCEPT !.closed = @ + 1] ELSE r

\* lines 214-216: finally { await browser.close(); }
Finally(r) == [r EXCEPT !.closed = @ + 1]

\* the failure is swallowed and main goes on to saveToCache
AfterFinallyGoesOn(failure) == "cacheWrite"

\* where control is after the finally block: line 532 when the try block
\* returned, the catch of line 548 when it threw
AfterFinally(failure) == IF failure = "none" THEN "cacheWrite" ELSE "exited"

\* lines 548-551: process.exit(1)
Catch(r, failure) == [r EXCEPT !.failure = failure, !.exitCode = Some(1)]

PageA == <<MediaRule(CondMin768, <<NavbarRule, FooterRule>>)>>

PageB ==
    <<MediaRule(CondMax768, <<NavbarRule>>),
      MediaRule(CondPrint, <<SupportsRule>>)>>

Pages == {PageA, PageB}

\* what a successful earlier run left in the cache for a page
Extraction(rules) ==
    LET mediaQueryData == Serialized(ExtractAll(rules))
    IN WithComplexity(mediaQueryData, calculateComplexity(mediaQueryData))

Urls == {"missing", "invalid", "valid"}

\* the --property and --selector arguments of a run
RunFilters == {<<None, None>>, <<Some(Width), None>>, <<None, Some(Footer)>>}

\* a cache file exists only for a URL that was once extracted
InitRun ==
    /\ pc = "args"
    /\ doc = <<>>
    /\ si = 0
    /\ results = EmptyResults
    /\ data = NoData
    /\ analysis = NoAnalysis
    /\ \E args \in RunFilters :
          /\ propertyFilter = args[1]
          /\ selectorFilter = args[2]
    /\ filtered = NoData
    /\ refiltered = NoData
    /\ other = [data |-> NoData, analysis |-> NoAnalysis]
    /\ now = CACHE_DURATION + 1
    /\ page \in Pages
    /\ cache \in {None}
         \cup {Some(Entry(Extraction(rules), mtime, TRUE)) :
                   rules \in Pages, mtime \in {0, 1, now}}
         \cup {Some(Entry(NoData, mtime, FALSE)) : mtime \in {0, 1, now}}
    /\ \E url \in Urls, forceRefresh \in BOOLEAN :
          /\ url # "valid" => cache = None
          /\ run = [NoRun EXCEPT !.url = url,
                                 !.forceRefresh = forceRefresh,
                                 !.cacheBefore = cache,
                                 !.number = 1]

\* what no step of a run touches
RunFrame ==
    UNCHANGED <<doc, si, results, propertyFilter, selectorFilter,
                refiltered, other>>

\* lines 41-50: if (!url) { ...; process.exit(1) }
ExitUsage ==
    /\ pc = "args"
    /\ run.url = "missing"
    /\ run' = [run EXCEPT !.exitCode = Some(1)]
    /\ pc' = "exited"
    /\ UNCHANGED <<data, analysis, filtered, cache, now, page>>
    /\ RunFrame

\* line 527 returning null, line 529 true
CacheMiss ==
    /\ pc = "args"
    /\ run.url # "missing"
    /\ loadFromCache(cache, now, run.forceRefresh).kind = "null"
    /\ pc' = "launch"
    /\ UNCHANGED <<data, analysis, filtered, run, cache, now, page>>
    /\ RunFrame

\* line 527 returning the parsed file, line 529 false
CacheHit ==
    /\ pc = "args"
    /\ run.url # "missing"
    /\ LET loaded == loadFromCache(cache, now, run.forceRefresh)
       IN /\ loaded.kind = "data"
          /\ data' = loaded.value
    /\ run' = [run EXCEPT !.source = "cache"]
    /\ pc' = "filter"
    /\ UNCHANGED <<analysis, filtered, cache, now, page>>
    /\ RunFrame

\* line 85 throws inside the try of line 525
CacheReadThrows ==
    /\ pc = "args"
    /\ run.url # "missing"
    /\ loadFromCache(cache, now, run.forceRefresh).kind = "throws"
    /\ run' = Catch(run, "cacheRead")
    /\ pc' = "exited"
    /\ UNCHANGED <<data, analysis, filtered, cache, now, page>>
    /\ RunFrame

\* lines 98-101
Launch ==
    /\ pc = "launch"
    /\ run' = [run EXCEPT !.launched = @ + 1]
    /\ pc' = "navigate"
    /\ UNCHANGED <<data, analysis, filtered, cache, now, page>>
    /\ RunFrame

\* puppeteer.launch rejects: no handle, no try block entered
LaunchFails ==
    /\ pc = "launch"
    /\ run' = Catch(run, "launch")
    /\ pc' = "exited"
    /\ UNCHANGED <<data, analysis, filtered, cache, now, page>>
    /\ RunFrame

\* lines 104-105: newPage and goto resolve; goto rejects a URL that does
\* not parse
Navigate ==
    /\ pc = "navigate"
    /\ run.url = "valid"
    /\ pc' = "evaluate"
    /\ UNCHANGED <<data, analysis, filtered, run, cache, now, page>>
    /\ RunFrame

\* lines 104-105 reject (unreachable host, timeout, invalid URL)
NavigateFails ==
    /\ pc = "navigate"
    /\ run' = [run EXCEPT !.failure = "navigation"]
    /\ pc' = "finally"
    /\ UNCHANGED <<data, analysis, filtered, cache, now, page>>
    /\ RunFrame

\* lines 109-203: the walk of Spec in one step
Evaluate ==
    /\ pc = "evaluate"
    /\ data' = Serialized(ExtractAll(page))
    /\ pc' = "complexity"
    /\ UNCHANGED <<analysis, filtered, run, cache, now, page>>
    /\ RunFrame

\* page.evaluate rejects
EvaluateFails ==
    /\ pc = "evaluate"
    /\ run' = [run EXCEPT !.failure = "evaluation"]
    /\ pc' = "finally"
    /\ UNCHANGED <<data, analysis, filtered, cache, now, page>>
    /\ RunFrame

\* lines 209-212
AttachComplexity ==
    /\ pc = "complexity"
    /\ analysis' = calculateComplexity(data)
    /\ data' = WithComplexity(data, analysis')
    /\ run' = [run EXCEPT !.source = "fresh"]
    /\ pc' = "finally"
    /\ UNCHANGED <<filtered, cache, now, page>>
    /\ RunFrame

\* an exception raised at lines 205-210, still inside the try block
ComplexityThrows ==
    /\ pc = "complexity"
    /\ run' = [run EXCEPT !.failure = "complexity"]
    /\ pc' = "finally"
    /\ UNCHANGED <<data, analysis, filtered, cache, now, page>>
    /\ RunFrame

\* lines 214-216, then line 532 or the catch of line 548
CloseBrowser ==
    /\ pc = "finally"
    /\ pc' = AfterFinally(run.failure)
    /\ run' = IF pc' = "exited" THEN Catch(Finally(run), run.failure)
              ELSE Finally(run)
    /\ UNCHANGED <<data, analysis, filtered, cache, now, page>>
    /\ RunFrame

\* the filtered result is cached
SaveToCacheFiltered ==
    /\ pc = "cacheWrite"
    /\ cache' = Some(Entry(applyFilters(data), now, TRUE))
    /\ pc' = "filter"
    /\ UNCHANGED <<data, analysis, filtered, run, now, page>>
    /\ RunFrame

\* lines 88-93
SaveToCache ==
    /\ pc = "cacheWrite"
    /\ cache' = Some(Entry(data, now, TRUE))
    /\ pc' = "filter"
    /\ UNCHANGED <<data, analysis, filtered, run, now, page>>
    /\ RunFrame

\* line 90 or 91 throws: the file is untouched, or truncated by the open
SaveToCacheThrows ==
    /\ pc = "cacheWrite"
    /\ cache' \in {cache, Some(Entry(NoData, now, FALSE))}
    /\ run' = Catch(run, "cacheWrite")
    /\ pc' = "exited"
    /\ UNCHANGED <<data, analysis, filtered, now, page>>
    /\ RunFrame

\* lines 536-546: applyFilters, displayResults, saveResults
FilterDisplaySave ==
    /\ pc = "filter"
    /\ filtered' = applyFilters(data)
    /\ run' = [run EXCEPT !.resultFile = Some(filtered'),
                          !.exitCode = Some(0)]
    /\ pc' = "exited"
    /\ UNCHANGED <<data, analysis, cache, now, page>>
    /\ RunFrame

\* the script is started again, a millisecond or CACHE_DURATION later
NewRun ==
    /\ pc = "exited"
    /\ run.number < MaxRuns
    /\ \E forceRefresh \in BOOLEAN, elapsed \in {1, CACHE_DURATION} :
          /\ now' = now + elapsed
          /\ run' = [NoRun EXCEPT
                        !.url = run.url,
                        !.forceRefresh = forceRefresh,
                        !.cacheBefore = cache,
                        !.number = run.number + 1,
                        !.earlier =
                            Some([propertyFilter |-> propertyFilter,
                                  selectorFilter |-> selectorFilter,
                                  wrote |-> run.source = "fresh"
                                            /\ run.failure = "none"])]
    /\ \E args \in RunFilters :
          /\ propertyFilter' = args[1]
          /\ selectorFilter' = args[2]
    /\ data' = NoData
    /\ analysis' = NoAnalysis
    /\ filtered' = NoData
    /\ pc' = "args"
    /\ UNCHANGED <<cache, page, doc, si, results, refiltered, other>>

NextRun ==
    \/ ExitUsage
    \/ CacheMiss
    \/ CacheHit
    \/ CacheReadThrows
    \/ Launch
    \/ LaunchFails
    \/ Navigate
    \/ NavigateFails
    \/ Evaluate
    \/ EvaluateFails
    \/ AttachComplexity
    \/ ComplexityThrows
    \/ CloseBrowser
    \/ SaveToCache
    \/ SaveToCacheThrows
    \/ FilterDisplaySave
    \/ NewRun

SpecRun == InitRun /\ [][NextRun]_vars

(***************************************************************************)
(* Two processes of the script started on the same URL at the same time    *)
(* and sharing the cache directory.  pc, run and data hold one value per   *)
(* process.  The page does not change and the browser steps succeed.       *)
(* fs.writeFileSync opens the file with flag 'w', which truncates it, and  *)
(* writes the content afterwards: the other process can run in between.    *)
(***************************************************************************)
Procs == {1, 2}

InitRace ==
    /\ pc = [p \in Procs |-> "args"]
    /\ doc = <<>>
    /\ si = 0
    /\ results = EmptyResults
    /\ data = [p \in Procs |-> NoData]
    /\ analysis = NoAnalysis
    /\ propertyFilter = None
    /\ selectorFilter = None
    /\ filtered = NoData
    /\ refiltered = NoData
    /\ other = [data |-> NoData, analysis |-> NoAnalysis]
    /\ now = CACHE_DURATION + 1
    /\ page \in Pages
    /\ cache \in {None} \cup {Some(Entry(Extraction(page), mtime, TRUE)) :
                                 mtime \in {0, 1, now}}
    /\ run \in [Procs -> {[NoRun EXCEPT !.url = "valid",
                                        !.forceRefresh = forceRefresh,
                                        !.cacheBefore = cache,
                                        !.number = 1] :
                             forceRefresh \in BOOLEAN}]

RaceFrame ==
    UNCHANGED <<doc, si, results, analysis, propertyFilter, selectorFilter,
                filtered, refiltered, other, now, page>>

\* line 527 returning null, line 529 true
RaceMiss(p) ==
    /\ pc[p] = "args"
    /\ loadFromCache(cache, now, run[p].forceRefresh).kind = "null"
    /\ pc' = [pc EXCEPT ![p] = "extract"]
    /\ UNCHANGED <<data, run, cache>>
    /\ RaceFrame

\* line 527 returning the parsed file
RaceHit(p) ==
    /\ pc[p] = "args"
    /\ LET loaded == loadFromCache(cache, now, run[p].forceRefresh)
       IN /\ loaded.kind = "data"
          /\ data' = [data EXCEPT ![p] = loaded.value]
    /\ run' = [run EXCEPT ![p].source = "cache"]
    /\ pc' = [pc EXCEPT ![p] = "filter"]
    /\ UNCHANGED cache
    /\ RaceFrame

\* line 85 throws on the file the other process has opened for writing
RaceReadThrows(p) ==
    /\ pc[p] = "args"
    /\ loadFromCache(cache, now, run[p].forceRefresh).kind = "throws"
    /\ run' = [run EXCEPT ![p] = Catch(run[p], "cacheRead")]
    /\ pc' = [pc EXCEPT ![p] = "exited"]
    /\ UNCHANGED <<data, cache>>
    /\ RaceFrame

\* line 531: extractMediaQueries from launch to close, with no failure
RaceExtract(p) ==
    /\ pc[p] = "extract"
    /\ data' = [data EXCEPT ![p] = Extraction(page)]
    /\ run' = [run EXCEPT ![p] =
                  Finally([run[p] EXCEPT !.launched = @ + 1,
                                         !.source = "fresh"])]
    /\ pc' = [pc EXCEPT ![p] = "cacheWrite"]
    /\ UNCHANGED cache
    /\ RaceFrame

\* line 91, first half: the file is created or truncated
RaceOpenCacheFile(p) ==
    /\ pc[p] = "cacheWrite"
    /\ cache' = Some(Entry(NoData, now, FALSE))
    /\ pc' = [pc EXCEPT ![p] = "cacheWriting"]
    /\ UNCHANGED <<data, run>>
    /\ RaceFrame

\* line 91, second half: the content is written
RaceWriteCacheFile(p) ==
    /\ pc[p] = "cacheWriting"
    /\ cache' = Some(Entry(data[p], now, TRUE))
    /\ pc' = [pc EXCEPT ![p] = "filter"]
    /\ UNCHANGED <<data, run>>
    /\ RaceFrame

\* lines 536-546
RaceFilterSave(p) ==
    /\ pc[p] = "filter"
    /\ run' = [run EXCEPT ![p].resultFile = Some(applyFilters(data[p])),
                          ![p].exitCode = Some(0)]
    /\ pc' = [pc EXCEPT ![p] = "exited"]
    /\ UNCHANGED <<data, cache>>
    /\ RaceFrame

NextRace ==
    \E p \in Procs :
        \/ RaceMiss(p)
        \/ RaceHit(p)
        \/ RaceReadThrows(p)
        \/ RaceExtract(p)
        \/ RaceOpenCacheFile(p)
        \/ RaceWriteCacheFile(p)
        \/ RaceFilterSave(p)

SpecRace == InitRace /\ [][NextRace]_vars

(***************************************************************************)
(* calculateComplexity on a sheet and on the same sheet with up to         *)
(* MaxAppend more @media rules at its end, each at a width that the sheet  *)
(* does not use yet.                                                       *)
(***************************************************************************)
AppendedRules(nBase, nMore, feature, shape) ==
    FamilyRules(feature, 768 + 4 * nBase, nMore, 1, "plain", shape)

InitAppend ==
    /\ pc = "pair"
    /\ doc = <<>>
    /\ si = 0
    /\ results = EmptyResults
    /\ analysis = NoAnalysis
    /\ propertyFilter = None
    /\ selectorFilter = None
    /\ filtered = NoData
    /\ refiltered = NoData
    /\ run = NoRun
    /\ cache = None
    /\ now = 0
    /\ page = <<>>
    /\ \E nBase \in 0..MaxMinWidths, nMore \in 0..MaxAppend,
          feature \in {"min-width:", "max-width:"}, shape \in RuleShapes :
          LET rules == GeneratedRules(nBase, 0, 0, 1, "plain", shape, 2)
              more == AppendedRules(nBase, nMore, feature, shape)
          IN /\ data = Serialized(ExtractAll(rules))
             /\ other = [data |-> Serialized(ExtractAll(rules \o more)),
                         analysis |-> NoAnalysis]

SpecAppend == InitAppend /\ [][NextPair]_vars

(***************************************************************************)
(* calculateComplexity on sheets of up to MaxWidthQueries @media rules     *)
(* whose widths lie at and next to each other: 0 and 1, 767 to 770, closed *)
(* ranges in either clause order, and a print block.                       *)
(***************************************************************************)
\* three style rules of seven declarations each
HeavyRules == <<StyleRuleOf(7), StyleRuleOf(7), StyleRuleOf(7)>>

LightRules == <<StyleRuleOf(2)>>

CondRangeMinFirst ==
    WidthClause("min-width:", 768) \o <<" and ">>
    \o WidthClause("max-width:", 1024)

CondRangeMaxFirst ==
    WidthClause("max-width:", 1024) \o <<" and ">>
    \o WidthClause("min-width:", 600)

WidthMediaRules ==
    {MediaRule(WidthClause("min-width:", 0), LightRules),
     MediaRule(WidthClause("min-width:", 768), HeavyRules),
     MediaRule(WidthClause("max-width:", 1), LightRules),
     MediaRule(WidthClause("max-width:", 767), LightRules),
     MediaRule(WidthClause("max-width:", 768), LightRules),
     MediaRule(WidthClause("max-width:", 770), LightRules),
     MediaRule(CondRangeMinFirst, LightRules),
     MediaRule(CondRangeMaxFirst, LightRules),
     MediaRule(CondPrint, HeavyRules)}

WidthInputs ==
    UNION {[1..n -> WidthMediaRules] : n \in 0..MaxWidthQueries}

InitWidths ==
    /\ pc = "score"
    /\ doc = <<>>
    /\ si = 0
    /\ results = EmptyResults
    /\ \E rules \in WidthInputs : data = Serialized(ExtractAll(rules))
    /\ analysis = NoAnalysis
    /\ propertyFilter = None
    /\ selectorFilter = None
    /\ filtered = NoData
    /\ refiltered = NoData
    /\ NoProcess

SpecWidths == InitWidths /\ [][NextScore]_vars

(***************************************************************************)
(* Properties of the scorer (SpecScore).                                   *)
(***************************************************************************)
\* C1: for every record list, the score returned by calculateComplexity
\* satisfies 0 <= score <= 100.
C1_ScoreBounded ==
    pc = "scored" => (0 <= analysis.score /\ analysis.score <= 100)

\* a record list that reaches the top of every sub-score
C1_Witness ==
    pc = "scored" /\ analysis.score = 100 /\ Len(data.mediaQueries) > 50

\* C2: calculateComplexity on an empty extraction returns score 0, level
\* Simple, an all-zero breakdown and no problem breakpoints.
C2_EmptyScoresZero ==
    (pc = "scored" /\ data.mediaQueries = <<>>)
        => /\ analysis.score = 0
           /\ analysis.level = "Simple"
           /\ \A f \in DOMAIN analysis.breakdown : analysis.breakdown[f] = 0
           /\ analysis.problemBreakpoints = <<>>

\* C3: the level is the band that contains the score (<= 20 Simple, 21..40
\* Moderate, 41..60 Complex, 61..80 Very Complex, > 80 Extremely Complex)
\* and is never 'unknown'.
C3_LevelMatchesBand ==
    pc = "scored" =>
        /\ analysis.level # "unknown"
        /\ (analysis.level = "Simple") = (analysis.score <= 20)
        /\ (analysis.level = "Moderate") = (analysis.score \in 21..40)
        /\ (analysis.level = "Complex") = (analysis.score \in 41..60)
        /\ (analysis.level = "Very Complex") = (analysis.score \in 61..80)
        /\ (analysis.level = "Extremely Complex") = (analysis.score > 80)

\* a scored list in a middle band, next to its upper boundary
C3_Witness ==
    pc = "scored" /\ analysis.score \in 56..60 /\ analysis.level = "Complex"

(***************************************************************************)
(* Properties of the extraction (Spec).                                    *)
(***************************************************************************)
\* the sheet is read to its end by the walk
Accessible(sheet) == ~IsCrossOrigin(sheet) /\ sheet.cssRules = "list"

\* the records of the @media rules of a rule list, in order
RecordsOf(rules) ==
    LET media == SelectSeq(rules, LAMBDA r : r.type = "MEDIA_RULE")
    IN [i \in 1..Len(media) |-> MediaQueryOf(media[i])]

\* every sheet is either read to its end or not read at all
WholeSheets == \A i \in 1..Len(doc) : doc[i].state # "faulted"

\* C4: with any subset of the sheets inaccessible (cross-origin, or throwing
\* when its rule list is read), the walk visits every sheet and returns
\* exactly the media queries of the accessible sheets, in sheet and rule
\* order, those of sheets after an inaccessible one included.
C4_InaccessibleSkipped ==
    (pc = "done" /\ WholeSheets) =>
        /\ \A i \in 1..Len(doc) :
              doc[i].state = (IF Accessible(doc[i]) THEN "read"
                              ELSE IF doc[i].cssRules = "throws"
                                      /\ ~IsCrossOrigin(doc[i])
                                   THEN "inaccessible"
                              ELSE "skipped")
        /\ data.mediaQueries =
              Concat([i \in 1..Len(doc) |->
                        IF Accessible(doc[i]) THEN RecordsOf(doc[i].rules)
                        ELSE <<>>])

\* a sheet that throws, followed by a sheet whose media queries are returned
C4_Witness ==
    /\ pc = "done" /\ WholeSheets
    /\ \E i, j \in 1..Len(doc) :
          /\ i < j
          /\ doc[i].state = "inaccessible"
          /\ doc[j].state = "read"
          /\ RecordsOf(doc[j].rules) # <<>>
    /\ data.mediaQueries # <<>>

\* C5: every record produced has (breakpoint = null) = (type = null), and
\* its type is 'min-width', 'max-width' or null.
C5_BreakpointTypePaired ==
    \A i \in 1..Len(results.mediaQueries) :
        LET mq == results.mediaQueries[i]
        IN /\ (mq.breakpoint = None) = (mq.type = None)
           /\ mq.type \in {None, Some("min-width"), Some("max-width")}

\* records of all three kinds in one result, a breakpoint of 0 among them
C5_Witness ==
    /\ pc = "done"
    /\ \E i, j, k \in 1..Len(data.mediaQueries) :
          /\ data.mediaQueries[i].type = None
          /\ data.mediaQueries[j].type = Some("max-width")
          /\ data.mediaQueries[k].breakpoint = Some(0)

\* C6: each record with a non-null breakpoint is in exactly one bucket of
\* the breakpoints map, the one keyed '{type}-{breakpoint}'; a bucket holds
\* only the records of its type and value; records with a null breakpoint
\* are in no bucket.
C6_BucketsGroupBreakpoints ==
    pc = "done" =>
        LET keyed == SelectSeq(data.mediaQueries,
                               LAMBDA mq : mq.breakpoint # None)
        IN /\ DOMAIN data.breakpoints =
                 {BreakpointKey(mq.type, mq.breakpoint) : mq \in Range(keyed)}
           /\ \A k \in DOMAIN data.breakpoints :
                 data.breakpoints[k] =
                     SelectSeq(keyed, LAMBDA mq :
                         BreakpointKey(mq.type, mq.breakpoint) = k)

\* C7: summary.totalMediaQueries and breakdown.totalQueries equal the number
\* of records, and summary.uniqueBreakpoints is the ascending duplicate-free
\* list of the breakpoints of the records, wherever an access failed.
C7_SummaryMatchesRecords ==
    pc = "done" =>
        /\ data.summary.totalMediaQueries = Len(data.mediaQueries)
        /\ data.complexity.breakdown.totalQueries = Len(data.mediaQueries)
        /\ data.summary.uniqueBreakpoints =
              SortAsc({Val(mq.breakpoint) :
                         mq \in {m \in Range(data.mediaQueries) :
                                    m.breakpoint # None}})

(***************************************************************************)
(* Properties of the filter stage (SpecFilter).                            *)
(***************************************************************************)
\* a filter argument is given: it is neither absent nor the empty string
Given(f) == f # None /\ Val(f) # <<>>

\* the rule of C8
KeptByClaim(rule) ==
    /\ \/ ~Given(propertyFilter)
       \/ \E name \in DOMAIN rule.properties :
             \/ Includes(name, Val(propertyFilter))
             \/ Includes(Val(propertyFilter), name)
    /\ \/ ~Given(selectorFilter)
       \/ \E at \in 1..(Len(rule.selector) - Len(Val(selectorFilter)) + 1) :
             SubSeq(rule.selector, at, at + Len(Val(selectorFilter)) - 1)
                 = Val(selectorFilter)

\* all rules of a record list, record by record
AllRules(mqs) == Concat([i \in 1..Len(mqs) |-> mqs[i].rules])

\* C8: applyFilters keeps a rule exactly when (no property filter, or a
\* declared property name contains the filter, or the filter contains the
\* name) and (no selector filter, or the selector text contains the filter
\* as a case-sensitive substring); all other rules are removed.
C8_KeepsMatchingRules ==
    pc = "filtered" =>
        AllRules(filtered.mediaQueries) =
            SelectSeq(AllRules(data.mediaQueries), KeptByClaim)

\* a rule kept only because the filter contains its property name, next
\* to rules that are removed
C8_Witness ==
    /\ pc = "filtered"
    /\ propertyFilter = Some(MarginLeft)
    /\ \E rule \in Range(AllRules(filtered.mediaQueries)) :
          DOMAIN rule.properties = {Margin}
    /\ Len(AllRules(filtered.mediaQueries)) < Len(AllRules(data.mediaQueries))

\* C9 as stated: for every combination of filters, present or absent, every
\* record of the result has at least one rule.
C9_NoEmptyRecordEver ==
    pc = "filtered" =>
        \A i \in 1..Len(filtered.mediaQueries) :
            Len(filtered.mediaQueries[i].rules) > 0

\* C9 amended: when at least one filter is given, every record of the
\* result has at least one rule; when none is given the input is returned
\* as it is, records without rules included.
C9_NoEmptyRecordWhenFiltering ==
    pc = "filtered" =>
        IF Given(propertyFilter) \/ Given(selectorFilter)
        THEN \A i \in 1..Len(filtered.mediaQueries) :
                 Len(filtered.mediaQueries[i].rules) > 0
        ELSE filtered = data

\* a filter is given, some record loses all its rules and another is kept
C9_Witness ==
    /\ pc = "filtered"
    /\ Given(selectorFilter)
    /\ \E i \in 1..Len(data.mediaQueries) :
          /\ data.mediaQueries[i].rules # <<>>
          /\ \A r \in Range(data.mediaQueries[i].rules) : ~RuleMatches(r)
    /\ Len(filtered.mediaQueries) = 1
    /\ Len(data.mediaQueries) = 2

\* C10: applyFilters applied to its own result with the same filters
\* returns that result.
C10_FilterIdempotent ==
    pc = "refiltered" => refiltered = filtered

\* a second application to a result that the first one has narrowed
C10_Witness ==
    /\ pc = "refiltered"
    /\ Given(propertyFilter)
    /\ filtered.mediaQueries # <<>>
    /\ Len(AllRules(filtered.mediaQueries)) < Len(AllRules(data.mediaQueries))

\* C11: the filter result is an order-preserving subset of its input:
\* the filtered records are, in order, input records with every field but
\* rules (and the added matchCount) unchanged, and the rules of each are,
\* in order and verbatim, rules of that input record.
IsSubsequence(s, t) ==
    \E at \in [1..Len(s) -> 1..Len(t)] :
        /\ \A i, j \in 1..Len(s) : i < j => at[i] < at[j]
        /\ \A i \in 1..Len(s) : s[i] = t[at[i]]

RecordWithin(out, in) ==
    /\ DOMAIN out \subseteq DOMAIN in \cup {"matchCount"}
    /\ \A k \in DOMAIN in \ {"rules", "matchCount"} :
          k \in DOMAIN out /\ out[k] = in[k]
    /\ IsSubsequence(out.rules, in.rules)

C11_FilterIsOrderedSubset ==
    pc \in {"filtered", "refiltered"} =>
        /\ DOMAIN filtered = DOMAIN data
        /\ \A k \in DOMAIN data \ {"mediaQueries"} : filtered[k] = data[k]
        /\ \E at \in [1..Len(filtered.mediaQueries)
                        -> 1..Len(data.mediaQueries)] :
              /\ \A i, j \in 1..Len(filtered.mediaQueries) :
                    i < j => at[i] < at[j]
              /\ \A i \in 1..Len(filtered.mediaQueries) :
                    RecordWithin(filtered.mediaQueries[i],
                                 data.mediaQueries[at[i]])

\* a filter that keeps two rules of a record and drops a third, and keeps
\* two different records
C11_Witness ==
    /\ pc = "filtered"
    /\ Given(propertyFilter)
    /\ Len(filtered.mediaQueries) = 2
    /\ filtered.mediaQueries[1].condition # filtered.mediaQueries[2].condition
    /\ \E i \in 1..2 :
          /\ Len(filtered.mediaQueries[i].rules) = 2
          /\ filtered.mediaQueries[i].rules[1]
               # filtered.mediaQueries[i].rules[2]
          /\ Len(data.mediaQueries[i].rules) = 3

(***************************************************************************)
(* C19: the threshold tables as the claim states them, over the record     *)
(* list that was scored.                                                   *)
(***************************************************************************)
TableBreakpoints(n) ==
    CASE n = 0 -> 0
      [] n \in 1..3 -> 5
      [] n \in 4..5 -> 10
      [] n \in 6..7 -> 15
      [] n \in 8..10 -> 20
      [] n > 10 -> 25

\* the mean is total / n, taken as 0 when there is no breakpoint
TableDensity(total, n) ==
    LET meanAtMost(limit) == n = 0 \/ total <= limit * n
    IN CASE meanAtMost(5) -> 5
         [] ~meanAtMost(5) /\ meanAtMost(15) -> 12
         [] ~meanAtMost(15) /\ meanAtMost(30) -> 20
         [] ~meanAtMost(30) -> 30

TableNested(n) ==
    CASE n = 0 -> 0
      [] n \in 1..2 -> 5
      [] n \in 3..5 -> 12
      [] n > 5 -> 20

TableOverlaps(n) ==
    CASE n = 0 -> 0
      [] n \in 1..2 -> 5
      [] n \in 3..5 -> 10
      [] n > 5 -> 15

TableVolume(n) ==
    CASE n <= 10 -> 2
      [] n \in 11..25 -> 5
      [] n \in 26..50 -> 7
      [] n > 50 -> 10

DistinctBreakpoints(mqs) ==
    Cardinality({Val(mqs[i].breakpoint) :
                    i \in {j \in 1..Len(mqs) : mqs[j].breakpoint # None}})

DeclaredProperties(mqs) ==
    SumSeq([i \in 1..Len(mqs) |-> PropCount(mqs[i].rules)])

\* C19: the score is the sum of the five sub-scores that the fixed
\* thresholds give for the number of distinct breakpoints, the mean number
\* of properties per breakpoint, the nested/combined count, the overlap
\* count and the total query count.
C19_ScoreIsSumOfTables ==
    pc = "scored" =>
        analysis.score =
            TableBreakpoints(DistinctBreakpoints(data.mediaQueries))
            + TableDensity(DeclaredProperties(data.mediaQueries),
                           DistinctBreakpoints(data.mediaQueries))
            + TableNested(analysis.breakdown.nestedQueries)
            + TableOverlaps(analysis.breakdown.overlaps)
            + TableVolume(Len(data.mediaQueries))

\* a list in an inner band of the breakpoint, density and volume tables
\* and in the top band of the overlap table
C19_Witness ==
    /\ pc = "scored"
    /\ DistinctBreakpoints(data.mediaQueries) \in 4..5
    /\ TableDensity(DeclaredProperties(data.mediaQueries),
                    DistinctBreakpoints(data.mediaQueries)) = 12
    /\ analysis.breakdown.overlaps > 5
    /\ Len(data.mediaQueries) \in 21..25
    /\ analysis.score
         = 10 + 12 + TableNested(analysis.breakdown.nestedQueries) + 15 + 5

\* C20: the score and the level depend only on the five reported breakdown
\* values: two record lists with equal breakdown objects receive the same
\* score and the same level.
C20_ScoreDeterminedByBreakdown ==
    (pc = "paired" /\ analysis.breakdown = other.analysis.breakdown) =>
        /\ analysis.score = other.analysis.score
        /\ analysis.level = other.analysis.level

(***************************************************************************)
(* Properties of a run (SpecRun).                                          *)
(***************************************************************************)
Exited == pc = "exited"

\* the entry that the lookup of this run found is at most 24 hours old
FreshBefore ==
    /\ run.cacheBefore # None
    /\ now - Val(run.cacheBefore).mtime <= CACHE_DURATION

ExpiredBefore ==
    /\ run.cacheBefore # None
    /\ now - Val(run.cacheBefore).mtime > CACHE_DURATION

\* C12: no cache error is fatal: a run that met an unreadable cache entry
\* or a failed cache write and no other failure still writes the result
\* file and exits 0, and after an unreadable entry the result is a fresh
\* extraction.
C12_CacheErrorsNotFatal ==
    (Exited /\ run.failure \in {"cacheRead", "cacheWrite"}) =>
        /\ run.exitCode = Some(0)
        /\ run.resultFile # None
        /\ run.source = "fresh"

\* C13: with --force the cache is never read, even when a fresh entry
\* exists; the extraction is always attempted, and when it succeeds (and
\* the write does not fail) the cache entry holds the new result, written
\* now.
C13_ForceBypassesCache ==
    (run.forceRefresh /\ run.url # "missing") =>
        /\ run.source # "cache"
        /\ run.failure # "cacheRead"
        /\ Exited =>
              \/ run.source = "fresh"
              \/ run.failure \in {"launch", "navigation", "evaluation",
                                  "complexity"}
        /\ (Exited /\ run.failure = "none") =>
              /\ cache = Some(Entry(data, now, TRUE))
              /\ run.resultFile = Some(applyFilters(data))
              /\ data = Extraction(page)

\* a forced run over a fresh readable entry of another page's result
C13_Witness ==
    /\ Exited
    /\ run.forceRefresh
    /\ run.failure = "none"
    /\ FreshBefore
    /\ Val(run.cacheBefore).readable
    /\ Val(run.cacheBefore).content # data
    /\ Val(cache).content = data

C15_BrowserClosedOnce ==
    /\ run.closed <= run.launched
    /\ run.launched <= 1
    /\ pc \in {"cacheWrite", "filter", "exited"} => run.closed = run.launched
    /\ pc \in {"navigate", "evaluate", "complexity", "finally"} =>
          run.launched = 1 /\ run.closed = 0

\* the process has exited after an exception during page evaluation
C15_Witness ==
    /\ Exited
    /\ run.failure = "evaluation"
    /\ run.launched = 1
    /\ run.closed = 1

\* C16: a run whose URL argument is missing or does not parse never
\* launches a browser and never navigates: it exits non-zero with no cache
\* entry and no result file written.
C16_BadUrlFailsFast ==
    run.url \in {"missing", "invalid"} =>
        /\ run.launched = 0
        /\ pc \in {"args", "exited"}
        /\ Exited => run.exitCode = Some(1)
        /\ run.resultFile = None
        /\ cache = run.cacheBefore

\* C17: a run without --force uses the cached result exactly when an entry
\* exists that was written at most 24 hours before the lookup; then no
\* browser is launched and the entry is not rewritten; otherwise the
\* result is a fresh extraction that replaces the entry (when the
\* extraction and the write succeed).
C17_HitExactlyWhenFresh ==
    (Exited /\ ~run.forceRefresh /\ run.url = "valid") =>
        /\ FreshBefore =>
              /\ run.source = "cache"
              /\ run.launched = 0
              /\ cache = run.cacheBefore
              /\ run.resultFile
                   = Some(applyFilters(Val(run.cacheBefore).content))
        /\ (~FreshBefore /\ run.failure = "none") =>
              /\ run.source = "fresh"
              /\ cache = Some(Entry(Extraction(page), now, TRUE))

\* C18: when the extraction fails at navigation and an expired cache entry
\* exists, the run completes with the expired cached result.
C18_FallsBackToExpired ==
    (Exited /\ run.failure = "navigation" /\ run.url = "valid"
       /\ ExpiredBefore /\ Val(run.cacheBefore).readable) =>
        /\ run.exitCode = Some(0)
        /\ run.resultFile = Some(applyFilters(Val(run.cacheBefore).content))

(***************************************************************************)
(* Properties of the breakdown (SpecWidths, SpecScore).                    *)
(***************************************************************************)
Scored == pc = "scored"

\* the records that carry a breakpoint
WithBreakpoint(mqs) == SelectSeq(mqs, LAMBDA mq : mq.breakpoint # None)

\* C21: breakdown.breakpointCount is the number of distinct (type,
\* breakpoint) pairs among the records with a non-null breakpoint.
C21_CountsTypeValuePairs ==
    Scored =>
        analysis.breakdown.breakpointCount =
            Cardinality({<<mq.type, mq.breakpoint>> :
                            mq \in Range(WithBreakpoint(data.mediaQueries))})

\* C22: breakdown.propertyChangesPerBreakpoint is round(P / B), B the
\* number of distinct breakpoints and P the number of properties declared
\* in the records that carry a breakpoint, 0 when B = 0.
C22_AverageOverBreakpointRecords ==
    Scored =>
        LET B == analysis.breakdown.breakpointCount
            P == DeclaredProperties(WithBreakpoint(data.mediaQueries))
        IN analysis.breakdown.propertyChangesPerBreakpoint =
              IF B = 0 THEN 0 ELSE (2 * P + B) \div (2 * B)

\* C23: breakdown.nestedQueries is the number of records whose condition
\* has more than two 'and'-joined clauses or names orientation, resolution,
\* aspect-ratio, hover or pointer; it never exceeds the number of records.
C23_NestedCountsRecords ==
    Scored =>
        /\ analysis.breakdown.nestedQueries =
              Cardinality({i \in 1..Len(data.mediaQueries) :
                  LET condition == data.mediaQueries[i].condition
                  IN \/ SplitAndLength(condition) > 2
                     \/ \E k \in 1..Len(condition) :
                           condition[k] \in NestedFeatures})
        /\ analysis.breakdown.nestedQueries <= Len(data.mediaQueries)

\* C24: breakdown.overlaps is the number of pairs of a min-width record and
\* a max-width record whose breakpoints differ by at most 1, for every
\* integer breakpoint value.
C24_OverlapsCountPairs ==
    Scored =>
        analysis.breakdown.overlaps =
            Cardinality({p \in (1..Len(data.mediaQueries))
                               \X (1..Len(data.mediaQueries)) :
                LET r1 == data.mediaQueries[p[1]]
                    r2 == data.mediaQueries[p[2]]
                IN /\ r1.type = Some("min-width")
                   /\ r2.type = Some("max-width")
                   /\ Abs(Val(r1.breakpoint) - Val(r2.breakpoint)) <= 1})

\* C25: problemBreakpoints lists exactly the buckets '{type}-{breakpoint}'
\* of the records with a non-null breakpoint whose property total is more
\* than 1.5 times the mean properties per breakpoint and more than 20.
C25_ProblemsAreBreakpointBuckets ==
    Scored =>
        LET keyed == WithBreakpoint(data.mediaQueries)
            keyOf(mq) == BreakpointKey(mq.type, mq.breakpoint)
            total(k) == DeclaredProperties(
                            SelectSeq(keyed, LAMBDA mq : keyOf(mq) = k))
            B == analysis.breakdown.breakpointCount
            T == DeclaredProperties(data.mediaQueries)
            listed == {analysis.problemBreakpoints[i].breakpoint :
                          i \in 1..Len(analysis.problemBreakpoints)}
        IN listed = {k \in {keyOf(mq) : mq \in Range(keyed)} :
                        /\ total(k) > 20
                        /\ IF B = 0 THEN total(k) > 0
                           ELSE 2 * total(k) * B > 3 * T}

\* the pixel value written after the first occurrence of a width feature
ClauseValue(condition, feature) ==
    LET at == Min({i \in 1..Len(condition) : condition[i] = feature})
        px == Min({k \in (at + 1)..Len(condition) : condition[k] = "px"})
    IN parseInt(SelectSeq(SubSeq(condition, at + 1, px - 1),
                          LAMBDA c : c \in DigitSet))

IsClosedRange(condition) ==
    /\ \E i \in 1..Len(condition) : condition[i] = "min-width:"
    /\ \E i \in 1..Len(condition) : condition[i] = "max-width:"

\* C26: a record whose condition has both a min-width and a max-width
\* pixel clause is one record of type 'min-width' with the min-width value
\* as its breakpoint, in either order of the clauses; its max-width value
\* is recorded nowhere.
C26_RangeIsMinWidth ==
    Scored =>
        /\ Len(data.mediaQueries) = data.summary.totalMediaQueries
        /\ \A i \in 1..Len(data.mediaQueries) :
              LET mq == data.mediaQueries[i]
              IN IsClosedRange(mq.condition) =>
                    /\ mq.type = Some("min-width")
                    /\ mq.breakpoint
                         = Some(ClauseValue(mq.condition, "min-width:"))
                    /\ DOMAIN mq = {"condition", "rules", "breakpoint", "type"}
        /\ (\A i \in 1..Len(data.mediaQueries) :
                IsClosedRange(data.mediaQueries[i].condition)) =>
              /\ Range(data.summary.uniqueBreakpoints) =
                    {ClauseValue(data.mediaQueries[i].condition, "min-width:") :
                        i \in 1..Len(data.mediaQueries)}
              /\ analysis.breakdown.overlaps = 0

\* both clause orders in one sheet
C26_Witness ==
    /\ Scored
    /\ \E i, j \in 1..Len(data.mediaQueries) :
          /\ data.mediaQueries[i].condition = CondRangeMinFirst
          /\ data.mediaQueries[i].breakpoint = Some(768)
          /\ data.mediaQueries[j].condition = CondRangeMaxFirst
          /\ data.mediaQueries[j].breakpoint = Some(600)
    /\ data.summary.uniqueBreakpoints = <<600, 768>>

\* the extraction as page.evaluate returned it, before line 210
Unscored(d) ==
    [summary |-> d.summary, mediaQueries |-> d.mediaQueries,
     breakpoints |-> d.breakpoints]

\* C27: the filter stage changes only the mediaQueries field: summary,
\* breakpoints and complexity of the result are those of the input, the
\* input is still the unfiltered extraction with its own complexity, and
\* the complexity of the result is the one of the unfiltered extraction
\* whatever the filters are.
C27_FilterLeavesComplexity ==
    pc \in {"filtered", "refiltered"} =>
        /\ filtered.summary = data.summary
        /\ filtered.breakpoints = data.breakpoints
        /\ filtered.complexity = data.complexity
        /\ DOMAIN filtered = DOMAIN data
        /\ data.complexity = analysis
        /\ filtered.complexity = calculateComplexity(Unscored(data))

\* a filter that removes rules and a whole record
C27_Witness ==
    /\ pc = "filtered"
    /\ Given(propertyFilter)
    /\ Len(filtered.mediaQueries) < Len(data.mediaQueries)
    /\ filtered.mediaQueries # <<>>
    /\ calculateComplexity(filtered) # filtered.complexity

\* C28: when two runs on the same URL and the same page have both ended,
\* under every interleaving of their steps, both have exited 0 with the
\* result a single run produces, and the cache entry holds that result.
C28_ConcurrentRunsAgree ==
    (\A p \in Procs : pc[p] = "exited") =>
        /\ \A p \in Procs :
              /\ run[p].exitCode = Some(0)
              /\ run[p].resultFile = Some(Extraction(page))
        /\ cache # None
        /\ Val(cache).readable
        /\ Val(cache).content = Extraction(page)

\* C29: appending records with new distinct breakpoints to a record list
\* never decreases the breakpoint-count sub-score.
C29_BreakpointScoreMonotone ==
    (pc = "paired"
       /\ Len(other.data.mediaQueries) >= Len(data.mediaQueries)
       /\ SubSeq(other.data.mediaQueries, 1, Len(data.mediaQueries))
            = data.mediaQueries
       /\ \A i \in (Len(data.mediaQueries) + 1)..Len(other.data.mediaQueries) :
             /\ other.data.mediaQueries[i].breakpoint # None
             /\ \A j \in 1..Len(other.data.mediaQueries) :
                   j # i => other.data.mediaQueries[j].breakpoint
                              # other.data.mediaQueries[i].breakpoint) =>
        /\ other.analysis.breakdown.breakpointCount
             = analysis.breakdown.breakpointCount
               + Len(other.data.mediaQueries) - Len(data.mediaQueries)
        /\ BreakpointScore(analysis.breakdown.breakpointCount)
             <= BreakpointScore(other.analysis.breakdown.breakpointCount)

\* three records appended to a list of five breakpoints: from the 10-point
\* band to the 20-point band
C29_Witness ==
    /\ pc = "paired"
    /\ analysis.breakdown.breakpointCount = 5
    /\ other.analysis.breakdown.breakpointCount = 8
    /\ Len(other.data.mediaQueries) = Len(data.mediaQueries) + 3
    /\ other.analysis.score = analysis.score + 10

\* C30: the cache entry holds the unfiltered extraction with its
\* complexity whatever the filters of the run that wrote it, and a run
\* served from the entry of an unchanged page writes the result content
\* that a fresh run with the same filters writes.
C30_CacheIndependentOfFilters ==
    /\ (cache # None /\ Val(cache).readable) =>
          Val(cache).content \in {Extraction(rules) : rules \in Pages}
    /\ (pc \in {"filter", "exited"} /\ run.source = "fresh"
          /\ run.failure = "none") =>
          Val(cache).content = Extraction(page)
    /\ (Exited /\ run.failure = "none"
          /\ run.source \in {"cache", "fresh"}
          /\ (run.source = "cache" =>
                 Val(run.cacheBefore).content = Extraction(page))) =>
          run.resultFile = Some(applyFilters(Extraction(page)))

\* a filtered run served from the entry that the run before it wrote
\* under another filter
C30_Witness ==
    /\ Exited
    /\ run.source = "cache"
    /\ run.earlier # None
    /\ Val(run.earlier).wrote
    /\ Given(Val(run.earlier).selectorFilter)
    /\ propertyFilter = Some(Width)
    /\ run.resultFile = Some(applyFilters(Extraction(page)))
    /\ Val(run.resultFile).mediaQueries # Extraction(page).mediaQueries

====
